---- MODULE Spec2Model ----
(***************************************************************************)
(* FinCloud: the user service (relational store, live SQL Server or the    *)
(* in-memory mock pool) and the transaction service (document store, live  *)
(* MongoDB or the in-memory MockTransaction collection).                   *)
(*                                                                         *)
(* Optional JavaScript values are sequences: <<>> is undefined/absent and  *)
(* <<v>> is the value v.  Dates are integers (days).  A Map is a sequence  *)
(* of its values in insertion order.                                       *)
(***************************************************************************)
EXTENDS Integers, Sequences, FiniteSets, TLC

VARIABLES
    \* ---- transaction service ----
    txPc,               \* startServer of the transaction service: starting / listening / exited
    readyState,         \* mongoose.connection.readyState (0 disconnected, 1 connected)
    dbUseMockDatabase,  \* useMockDatabase of transaction-service/src/config/database.js
    modelUseMockDatabase, \* useMockDatabase of models/Transaction.js
    mockTransactions,   \* the Map mockTransactions of models/Transaction.js
    liveTransactions,   \* the transactions collection of the live MongoDB
    nextId,             \* ids given out so far (randomUUID / ObjectId are fresh)
    now,                \* the clock (new Date())
    res,                \* the response of the transaction-service request handled last
    \* ---- user service ----
    usPc,               \* startServer of the user service
    poolPromise,        \* poolPromise of user-service/src/config/database.js
    useMockDatabase,    \* useMockDatabase of user-service/src/config/database.js
    mockUsers,          \* mockDatabase.users
    mockProfiles,       \* mockDatabase.user_profiles
    liveUsers,          \* table users of the live SQL Server
    liveProfiles,       \* table user_profiles of the live SQL Server
    userNextId,         \* ids given out so far (randomUUID / NEWID() are fresh)
    reg,                \* the register requests in flight, one record per request slot
    upd,                \* the profile-update request in flight, or answered last
    ures,               \* the response of the user-service request answered last
    \* ---- calculateProfileCompletion on its own ----
    snapshot,           \* the row calculateProfileCompletion is called with
    completion,         \* what it returned, once it has been called
    \* ---- a client of the transaction service ----
    observed            \* what the reads answered for one user, and the stores then

txVars == <<txPc, readyState, dbUseMockDatabase, modelUseMockDatabase,
            mockTransactions, liveTransactions, nextId, now, res>>
usVars == <<usPc, poolPromise, useMockDatabase, mockUsers, mockProfiles, liveUsers,
            liveProfiles, userNextId, reg, upd, ures>>
pfVars == <<snapshot, completion>>
obsVars == <<observed>>
vars == <<txVars, usVars, pfVars, obsVars>>

\* ---------------------------------------------------------------- bounds
MaxTx == 2          \* transactions created in one behaviour
MaxTick == 1        \* clock ticks in one behaviour
Now0 == 400         \* the clock at startup
MaxUsers == 2       \* register requests in one behaviour
MaxMoney == 9       \* amounts of a profile, in hundreds

\* ---------------------------------------------------------------- helpers
None == <<>>
Some(v) == <<v>>
Abs(x) == IF x < 0 THEN -x ELSE x
Min(a, b) == IF a < b THEN a ELSE b

RECURSIVE SumSeq(_)
SumSeq(s) == IF s = <<>> THEN 0 ELSE s[1] + SumSeq(Tail(s))

RECURSIVE Dedup(_)
\* the keys of s, each once, in order of first appearance (the key order of a JS object)
Dedup(s) ==
    IF s = <<>> THEN <<>>
    ELSE LET r == Dedup(SubSeq(s, 1, Len(s) - 1))
             last == s[Len(s)]
         IN IF \E i \in 1..Len(r) : r[i] = last THEN r ELSE Append(r, last)

RECURSIVE ConcatAll(_)
ConcatAll(ss) == IF ss = <<>> THEN <<>> ELSE ss[1] \o ConcatAll(Tail(ss))

Range(s) == {s[i] : i \in 1..Len(s)}

\* sorts a sequence of <<key, value>> pairs by key, descending, stably
\* (Array.prototype.sort is stable; for the live store, whose order among equal
\* keys is unspecified, this is the order of a collection scan)
InsertDesc(x, s) ==
    LET k == Cardinality({i \in 1..Len(s) : s[i][1] >= x[1]})
    IN SubSeq(s, 1, k) \o <<x>> \o SubSeq(s, k + 1, Len(s))

RECURSIVE SortDesc(_)
SortDesc(s) ==
    IF s = <<>> THEN <<>>
    ELSE InsertDesc(s[Len(s)], SortDesc(SubSeq(s, 1, Len(s) - 1)))

Values(pairs) == [i \in 1..Len(pairs) |-> pairs[i][2]]

\* =================================================================
\* Transaction service
\* =================================================================

Categories == {"food", "transport", "entertainment", "shopping", "bills", "health",
               "education", "salary", "freelance", "investment", "gift", "other"}
Types == {"income", "expense"}
RecurringPeriods == {"daily", "weekly", "monthly", "yearly"}
MaxDescription == 200

TxUsers == {"u1", "u2"}

\* a request body; "" stands for a missing required string
Body(u, a, d, c, t) ==
    [userId |-> u, amount |-> a, description |-> d, category |-> c, type |-> t,
     date |-> None, tags |-> None, isRecurring |-> None, recurringPeriod |-> None]

ValidBodies ==
    { Body("u1", 50, "lunch", "food", "expense"),
      [Body("u1", -100, "pay", "salary", "income") EXCEPT !.date = Some(Now0 - 7)],
      [Body("u1", -40, "bus", "transport", "expense") EXCEPT !.date = Some(Now0 - 31)],
      [Body("u1", 30, "refund", "food", "income") EXCEPT !.tags = Some(<<"Shop">>)],
      [Body("u2", 20, "gym", "health", "expense") EXCEPT !.isRecurring = Some(TRUE)] }

InvalidBodies ==
    { Body("u1", 0, "zero", "food", "expense"),
      Body("u1", 50, "lunch", "bogus", "expense"),
      Body("", 50, "", "food", "transfer") }

TxBodies == ValidBodies \cup InvalidBodies

\* the bodies of the update requests
TxUpdateBodies ==
    { Body("u1", 50, "lunch", "food", "expense"),
      [Body("u1", -100, "pay", "salary", "income") EXCEPT !.date = Some(Now0 - 7)],
      Body("u1", 0, "zero", "food", "expense") }

\* the same, and one that names another user
TxReownBodies == TxUpdateBodies \cup { Body("u2", 20, "gym", "health", "expense") }

\* Joi transactionSchema.validate: TRUE when there is no error
transactionSchemaValid(b) ==
    /\ b.userId # ""
    /\ b.amount # 0
    /\ b.description # "" /\ Len(b.description) <= MaxDescription
    /\ b.category \in Categories
    /\ b.type \in Types
    /\ (b.recurringPeriod = None \/ b.recurringPeriod[1] \in RecurringPeriods)

\* the amount stored as the client sent it (sign never adjusted)
adjustAmountNoFlip(type, amount) == amount

\* "Ajustar valor baseado no tipo": the amount the handlers store
adjustAmount(type, amount) ==
    IF type = "expense" /\ amount > 0 THEN -Abs(amount)
    ELSE IF type = "income" /\ amount < 0 THEN Abs(amount)
    ELSE amount

adjusted(b) == [b EXCEPT !.amount = adjustAmount(b.type, b.amount)]

\* shouldUseMock of routes/transactionRoutes.js
shouldUseMockRoutes == readyState = 0

\* shouldUseMock of models/Transaction.js
shouldUseMockModel == readyState = 0 \/ modelUseMockDatabase

\* what require('../models/Transaction') gives the routes: the emulator class in
\* fallback mode, the mongoose model otherwise
TransactionIsMock == shouldUseMockRoutes

\* new MockTransaction(data)
MockTransaction(data, id, t) ==
    [_id |-> id, userId |-> data.userId, amount |-> data.amount,
     description |-> data.description, category |-> data.category, type |-> data.type,
     date |-> IF data.date = None THEN t ELSE data.date[1],
     tags |-> IF data.tags = None THEN <<>> ELSE data.tags[1],
     isRecurring |-> IF data.isRecurring = None THEN FALSE ELSE data.isRecurring[1],
     recurringPeriod |-> data.recurringPeriod,
     createdAt |-> t, updatedAt |-> t]

\* lowercase: true of the tags of the mongoose schema
toLowerCase(str) == IF str = "Shop" THEN "shop" ELSE str

\* the mongoose schema's validation of a new document: recurringPeriod is
\* required when isRecurring
schemaValid(data) ==
    /\ data.amount # 0
    /\ (data.isRecurring = Some(TRUE) => data.recurringPeriod # None)

\* new Transaction(data) of the mongoose model, with the schema's defaults and setters
LiveTransaction(data, id, t) ==
    [_id |-> id, userId |-> data.userId, amount |-> data.amount,
     description |-> data.description, category |-> data.category, type |-> data.type,
     date |-> IF data.date = None THEN t ELSE data.date[1],
     tags |-> IF data.tags = None THEN <<>>
              ELSE [i \in 1..Len(data.tags[1]) |-> toLowerCase(data.tags[1][i])],
     isRecurring |-> IF data.isRecurring = None THEN FALSE ELSE data.isRecurring[1],
     recurringPeriod |-> data.recurringPeriod,
     createdAt |-> t, updatedAt |-> t]

IndexOfId(store, id) ==
    IF \E i \in 1..Len(store) : store[i]._id = id
    THEN CHOOSE i \in 1..Len(store) : store[i]._id = id
    ELSE 0

RemoveAt(store, i) == SubSeq(store, 1, i - 1) \o SubSeq(store, i + 1, Len(store))

\* Object.assign(transaction, update): the keys the validated body carries
\* overwrite, the others stay
assign(tx, update, t) ==
    [tx EXCEPT !.userId = update.userId, !.amount = update.amount,
               !.description = update.description, !.category = update.category,
               !.type = update.type,
               !.date = IF update.date = None THEN @ ELSE update.date[1],
               !.tags = IF update.tags = None THEN @ ELSE update.tags[1],
               !.isRecurring = IF update.isRecurring = None THEN @ ELSE update.isRecurring[1],
               !.recurringPeriod = IF update.recurringPeriod = None THEN @ ELSE update.recurringPeriod,
               !.updatedAt = t]

\* findByIdAndUpdate of the mongoose model: $set of the keys of the update
liveAssign(tx, update, t) ==
    [assign(tx, update, t) EXCEPT
        !.tags = IF update.tags = None THEN tx.tags
                 ELSE [i \in 1..Len(update.tags[1]) |-> toLowerCase(update.tags[1][i])]]

\* ---------------------------------------------------------------- queries

InternalError == [status |-> 500, body |-> [error |-> "Internal server error"]]
NotFound == [status |-> 404, body |-> [error |-> "Transaction not found"]]
ValidationError == [status |-> 400, body |-> [error |-> "Validation error"]]

\* the filter of MockTransaction.find and of the live find: conjunctive
matches(t, filter) ==
    /\ t.userId = filter.userId
    /\ (filter.category = None \/ t.category = filter.category[1])
    /\ (filter.type = None \/ t.type = filter.type[1])
    /\ (filter.startDate = None \/ t.date >= filter.startDate[1])
    /\ (filter.endDate = None \/ t.date <= filter.endDate[1])

\* MockTransaction.find(filter), once awaited, then .sort().limit().skip().lean():
\* the chain ignores its arguments
mockFind(filter) == SelectSeq(mockTransactions, LAMBDA t : matches(t, filter))

\* MockTransaction.countDocuments
mockCountDocuments(filter) == Len(mockFind(filter))

\* Transaction.find(filter).sort({date: -1}).limit(limit).skip(skip).lean() of the live store
liveFind(filter, skip, limit) ==
    LET found == SelectSeq(liveTransactions, LAMBDA t : matches(t, filter))
        sorted == Values(SortDesc([i \in 1..Len(found) |-> <<found[i].date, found[i]>>]))
    IN SubSeq(sorted, skip + 1, Min(skip + limit, Len(sorted)))

liveCountDocuments(filter) ==
    Len(SelectSeq(liveTransactions, LAMBDA t : matches(t, filter)))

\* total / limit rounded up (Math.ceil)
Ceil(total, limit) == (total + limit - 1) \div limit

\* router.get('/user/:userId'): the emulator's find is async, so the route's
\* .sort on the promise it returns throws and the handler answers 500
listTransactions(userId, q) ==
    LET filter == [userId |-> userId, category |-> q.category, type |-> q.type,
                   startDate |-> q.startDate, endDate |-> q.endDate]
    IN IF TransactionIsMock THEN InternalError
       ELSE LET total == liveCountDocuments(filter)
            IN [status |-> 200,
                body |-> [transactions |-> liveFind(filter, (q.page - 1) * q.limit, q.limit),
                          pagination |-> [current |-> q.page,
                                          pages |-> Ceil(total, q.limit),
                                          total |-> total]]]

\* the window's $match / filter of the summaries: both ends included
inWindow(t, userId, startDate, endDate) ==
    t.userId = userId /\ t.date >= startDate /\ t.date <= endDate

\* group a sequence of transactions by type: total and count per type, in order
\* of first appearance (avgAmount, which no caller reads, is left out)
groupByType(txs) ==
    LET keys == Dedup([i \in 1..Len(txs) |-> txs[i].type])
        of(k) == SelectSeq(txs, LAMBDA t : t.type = k)
    IN [k \in 1..Len(keys) |->
          [_id |-> keys[k],
           total |-> SumSeq([i \in 1..Len(of(keys[k])) |-> of(keys[k])[i].amount]),
           count |-> Len(of(keys[k]))]]

\* the mock summary without the userId filter
getMockFinancialSummaryAllUsers(userId, startDate, endDate) ==
    groupByType(SelectSeq(mockTransactions,
                          LAMBDA t : t.date >= startDate /\ t.date <= endDate))

getMockFinancialSummary(userId, startDate, endDate) ==
    groupByType(SelectSeq(mockTransactions,
                          LAMBDA t : inWindow(t, userId, startDate, endDate)))

\* statics.getFinancialSummary
getFinancialSummary(userId, startDate, endDate) ==
    IF shouldUseMockModel THEN getMockFinancialSummary(userId, startDate, endDate)
    ELSE groupByType(SelectSeq(liveTransactions,
                               LAMBDA t : inWindow(t, userId, startDate, endDate)))

\* group by (category, type): total and count, sorted by total descending
groupByCategoryAndType(txs) ==
    LET keys == Dedup([i \in 1..Len(txs) |-> <<txs[i].category, txs[i].type>>])
        of(k) == SelectSeq(txs, LAMBDA t : <<t.category, t.type>> = k)
        groups == [k \in 1..Len(keys) |->
                     [_id |-> [category |-> keys[k][1], type |-> keys[k][2]],
                      total |-> SumSeq([i \in 1..Len(of(keys[k])) |-> of(keys[k])[i].amount]),
                      count |-> Len(of(keys[k]))]]
    IN Values(SortDesc([k \in 1..Len(groups) |-> <<groups[k].total, groups[k]>>]))

getMockCategorySummary(userId, startDate, endDate) ==
    groupByCategoryAndType(SelectSeq(mockTransactions,
                                     LAMBDA t : inWindow(t, userId, startDate, endDate)))

\* statics.getCategorySummary
getCategorySummary(userId, startDate, endDate) ==
    IF shouldUseMockModel THEN getMockCategorySummary(userId, startDate, endDate)
    ELSE groupByCategoryAndType(SelectSeq(liveTransactions,
                                          LAMBDA t : inWindow(t, userId, startDate, endDate)))

Periods == {"7d", "30d", "90d", "1y", "all"}

\* the switch of the summary route: days before now the window starts
periodDays(period) ==
    CASE period = "7d" -> 7
      [] period = "30d" -> 30
      [] period = "90d" -> 90
      [] period = "1y" -> 365
      [] OTHER -> 30

\* router.get('/user/:userId/summary')
getSummary(userId, period) ==
    LET endDate == now
        startDate == now - periodDays(period)
        summary == getFinancialSummary(userId, startDate, endDate)
        categorySummary == getCategorySummary(userId, startDate, endDate)
        find(id) == SelectSeq(summary, LAMBDA g : g._id = id)
        income == IF find("income") = <<>> THEN 0 ELSE find("income")[1].total
        expenses == Abs(IF find("expense") = <<>> THEN 0 ELSE find("expense")[1].total)
    IN [status |-> 200,
        body |-> [period |-> period,
                  summary |-> [income |-> income, expenses |-> expenses,
                               balance |-> income - expenses,
                               total_transactions |->
                                   SumSeq([i \in 1..Len(summary) |-> summary[i].count])],
                  categories |-> categorySummary]]

\* parseInt(period.replace('d', '')) of the categories route
CategoryPeriods == {"7d", "30d", "90d", "1y"}
parseIntPeriod(period) ==
    CASE period = "7d" -> 7
      [] period = "30d" -> 30
      [] period = "90d" -> 90
      [] period = "1y" -> 1

TopLimit == 10

\* the pipeline of the categories route run on a collection: $match, $group by
\* category with count and the sum of $abs amounts, $sort count descending, $limit 10
categoriesPipeline(coll, userId, startDate, endDate) ==
    LET txs == SelectSeq(coll, LAMBDA t : inWindow(t, userId, startDate, endDate))
        keys == Dedup([i \in 1..Len(txs) |-> txs[i].category])
        of(k) == SelectSeq(txs, LAMBDA t : t.category = k)
        groups == [k \in 1..Len(keys) |->
                     [_id |-> keys[k],
                      count |-> Len(of(keys[k])),
                      total_amount |-> SumSeq([i \in 1..Len(of(keys[k])) |->
                                                  Abs(of(keys[k])[i].amount)])]]
        sorted == Values(SortDesc([k \in 1..Len(groups) |-> <<groups[k].count, groups[k]>>]))
    IN SubSeq(sorted, 1, Min(TopLimit, Len(sorted)))

\* Transaction.aggregate of the mongoose model
liveAggregate(userId, startDate, endDate) ==
    categoriesPipeline(liveTransactions, userId, startDate, endDate)

\* MockTransaction.aggregate: "Simplified aggregation for mock"
mockAggregate(userId, startDate, endDate) == <<>>

\* router.get('/user/:userId/categories')
getTopCategories(userId, period) ==
    LET endDate == now
        startDate == now - parseIntPeriod(period)
    IN [status |-> 200,
        body |-> [categories |-> IF TransactionIsMock
                                 THEN mockAggregate(userId, startDate, endDate)
                                 ELSE liveAggregate(userId, startDate, endDate)]]

\* ---------------------------------------------------------------- handlers

\* router.post('/'): the response and the stores after it
postTransaction(body) ==
    LET same == [mock |-> mockTransactions, live |-> liveTransactions, nextId |-> nextId]
        value == adjusted(body)
        id == nextId + 1
    IN IF ~transactionSchemaValid(body)
       THEN [res |-> ValidationError] @@ same
       ELSE IF shouldUseMockRoutes
       THEN LET transaction == MockTransaction(value, id, now)
            IN [res |-> [status |-> 201, body |-> [transaction |-> transaction]],
                mock |-> Append(mockTransactions, transaction),
                live |-> liveTransactions, nextId |-> id]
       ELSE IF ~schemaValid(value)
       THEN [res |-> InternalError] @@ same
       ELSE LET transaction == LiveTransaction(value, id, now)
            IN [res |-> [status |-> 201, body |-> [transaction |-> transaction]],
                mock |-> mockTransactions,
                live |-> Append(liveTransactions, transaction), nextId |-> id]

\* a req.params.id that is not the 24 hex digits of an ObjectId
NotAnObjectId == 0

\* the cast of the id by findById / findByIdAndUpdate / findByIdAndDelete of the
\* mongoose model: a string that is no ObjectId rejects with a CastError
castError(id) == ~TransactionIsMock /\ id = NotAnObjectId

\* router.get('/:id') over findById
getTransaction(id) ==
    LET store == IF TransactionIsMock THEN mockTransactions ELSE liveTransactions
        i == IndexOfId(store, id)
    IN IF castError(id) THEN InternalError
       ELSE IF i = 0 THEN NotFound
       ELSE [status |-> 200, body |-> [transaction |-> store[i]]]

\* router.put('/:id') over findByIdAndUpdate
putTransaction(id, body) ==
    LET same == [mock |-> mockTransactions, live |-> liveTransactions]
        value == adjusted(body)
        store == IF TransactionIsMock THEN mockTransactions ELSE liveTransactions
        i == IndexOfId(store, id)
    IN IF ~transactionSchemaValid(body)
       THEN [res |-> ValidationError] @@ same
       ELSE IF castError(id)
       THEN [res |-> InternalError] @@ same
       ELSE IF i = 0
       THEN [res |-> NotFound] @@ same
       ELSE IF TransactionIsMock
       THEN LET transaction == assign(store[i], value, now)
            IN [res |-> [status |-> 200, body |-> [transaction |-> transaction]],
                mock |-> [mockTransactions EXCEPT ![i] = transaction],
                live |-> liveTransactions]
       ELSE LET transaction == liveAssign(store[i], value, now)
            IN [res |-> [status |-> 200, body |-> [transaction |-> transaction]],
                mock |-> mockTransactions,
                live |-> [liveTransactions EXCEPT ![i] = transaction]]

\* router.delete('/:id') over findByIdAndDelete
deleteTransaction(id) ==
    LET store == IF TransactionIsMock THEN mockTransactions ELSE liveTransactions
        i == IndexOfId(store, id)
    IN IF castError(id)
       THEN [res |-> InternalError, mock |-> mockTransactions, live |-> liveTransactions]
       ELSE IF i = 0
       THEN [res |-> NotFound, mock |-> mockTransactions, live |-> liveTransactions]
       ELSE [res |-> [status |-> 200, body |-> [message |-> "Transaction deleted successfully"]],
             mock |-> IF TransactionIsMock THEN RemoveAt(store, i) ELSE mockTransactions,
             live |-> IF TransactionIsMock THEN liveTransactions ELSE RemoveAt(store, i)]

\* setupMockDatabase(): constructing the in-memory store does not fail
setupMockDatabaseThrows == FALSE

\* connectDatabase: mongoose.connect resolves (connected) or rejects; the inner
\* catch switches to the mock database, the outer catch rethrows
connectDatabase(connected) ==
    [readyState |-> IF connected THEN 1 ELSE 0,
     useMockDatabase |-> ~connected,
     threw |-> ~connected /\ setupMockDatabaseThrows]

\* startServer of the transaction service: listen, or process.exit(1) on a throw
startServerTx(connected) ==
    LET r == connectDatabase(connected)
    IN [readyState |-> r.readyState, useMockDatabase |-> r.useMockDatabase,
        pc |-> IF r.threw THEN "exited" ELSE "listening"]

\* ---------------------------------------------------------------- inputs
TxIds == 1..MaxTx
\* the ids a read by id can name
RequestIds == TxIds \cup {NotAnObjectId}

Query(page, limit) ==
    [page |-> page, limit |-> limit, category |-> None, type |-> None,
     startDate |-> None, endDate |-> None]

ListQueries ==
    { Query(1, 1), Query(2, 1), Query(1, 2),
      [Query(1, 20) EXCEPT !.category = Some("food"), !.type = Some("income")],
      [Query(1, 20) EXCEPT !.startDate = Some(Now0 - 7), !.endDate = Some(Now0)] }

\* ---------------------------------------------------------------- actions
NoRequest == [op |-> "none"]
NoResponse == [op |-> "none", status |-> 0]

TxInit ==
    /\ txPc = "starting"
    /\ readyState = 0
    /\ dbUseMockDatabase = FALSE
    /\ modelUseMockDatabase = FALSE
    /\ mockTransactions = <<>>
    /\ liveTransactions = <<>>
    /\ nextId = 0
    /\ now = Now0
    /\ res = NoResponse

TxStartServer ==
    /\ txPc = "starting"
    /\ \E connected \in BOOLEAN :
         LET r == startServerTx(connected)
         IN /\ readyState' = r.readyState
            /\ dbUseMockDatabase' = r.useMockDatabase
            /\ txPc' = r.pc
    /\ UNCHANGED <<modelUseMockDatabase, mockTransactions, liveTransactions, nextId,
                   now, res>>
    /\ UNCHANGED <<usVars, pfVars, obsVars>>

\* mongoose.connection 'disconnected': the live connection drops after startup
Disconnected ==
    /\ txPc = "listening"
    /\ readyState = 1
    /\ readyState' = 0
    /\ UNCHANGED <<txPc, dbUseMockDatabase, modelUseMockDatabase, mockTransactions,
                   liveTransactions, nextId, now, res>>
    /\ UNCHANGED <<usVars, pfVars, obsVars>>

\* the driver reconnects a connection that had been established
Reconnected ==
    /\ txPc = "listening"
    /\ readyState = 0
    /\ ~dbUseMockDatabase
    /\ readyState' = 1
    /\ UNCHANGED <<txPc, dbUseMockDatabase, modelUseMockDatabase, mockTransactions,
                   liveTransactions, nextId, now, res>>
    /\ UNCHANGED <<usVars, pfVars, obsVars>>

Tick ==
    /\ now < Now0 + MaxTick
    /\ now' = now + 1
    /\ UNCHANGED <<txPc, readyState, dbUseMockDatabase, modelUseMockDatabase,
                   mockTransactions, liveTransactions, nextId, res>>
    /\ UNCHANGED <<usVars, pfVars, obsVars>>

CreateTransaction ==
    /\ txPc = "listening"
    /\ nextId < MaxTx
    /\ \E body \in TxBodies :
         LET r == postTransaction(body)
         IN /\ res' = [op |-> "create", status |-> r.res.status]
            /\ mockTransactions' = r.mock
            /\ liveTransactions' = r.live
            /\ nextId' = r.nextId
    /\ UNCHANGED <<txPc, readyState, dbUseMockDatabase, modelUseMockDatabase, now>>
    /\ UNCHANGED <<usVars, pfVars, obsVars>>

ListTransactions ==
    /\ txPc = "listening"
    /\ \E userId \in TxUsers, q \in ListQueries :
         /\ res' = [op |-> "list", status |-> listTransactions(userId, q).status]
    /\ UNCHANGED <<txPc, readyState, dbUseMockDatabase, modelUseMockDatabase,
                   mockTransactions, liveTransactions, nextId, now>>
    /\ UNCHANGED <<usVars, pfVars, obsVars>>

GetTransaction ==
    /\ txPc = "listening"
    /\ \E id \in RequestIds :
         /\ res' = [op |-> "get", status |-> getTransaction(id).status]
    /\ UNCHANGED <<txPc, readyState, dbUseMockDatabase, modelUseMockDatabase,
                   mockTransactions, liveTransactions, nextId, now>>
    /\ UNCHANGED <<usVars, pfVars, obsVars>>

UpdateTransactionWith(bodies) ==
    /\ txPc = "listening"
    /\ \E id \in TxIds, body \in bodies :
         LET r == putTransaction(id, body)
         IN /\ res' = [op |-> "update", status |-> r.res.status]
            /\ mockTransactions' = r.mock
            /\ liveTransactions' = r.live
    /\ UNCHANGED <<txPc, readyState, dbUseMockDatabase, modelUseMockDatabase, nextId, now>>
    /\ UNCHANGED <<usVars, pfVars, obsVars>>

UpdateTransaction == UpdateTransactionWith(TxUpdateBodies)

\* an update whose body may name any user
UpdateTransactionAnyUser == UpdateTransactionWith(TxReownBodies)

DeleteTransaction ==
    /\ txPc = "listening"
    /\ \E id \in TxIds :
         LET r == deleteTransaction(id)
         IN /\ res' = [op |-> "delete", status |-> r.res.status]
            /\ mockTransactions' = r.mock
            /\ liveTransactions' = r.live
    /\ UNCHANGED <<txPc, readyState, dbUseMockDatabase, modelUseMockDatabase, nextId, now>>
    /\ UNCHANGED <<usVars, pfVars, obsVars>>

Summary ==
    /\ txPc = "listening"
    /\ \E userId \in TxUsers, period \in Periods :
         /\ res' = [op |-> "summary", status |-> getSummary(userId, period).status]
    /\ UNCHANGED <<txPc, readyState, dbUseMockDatabase, modelUseMockDatabase,
                   mockTransactions, liveTransactions, nextId, now>>
    /\ UNCHANGED <<usVars, pfVars, obsVars>>

TopCategories ==
    /\ txPc = "listening"
    /\ \E userId \in TxUsers, period \in CategoryPeriods :
         /\ res' = [op |-> "categories", status |-> getTopCategories(userId, period).status]
    /\ UNCHANGED <<txPc, readyState, dbUseMockDatabase, modelUseMockDatabase,
                   mockTransactions, liveTransactions, nextId, now>>
    /\ UNCHANGED <<usVars, pfVars, obsVars>>

\* what findForUser, getSummary and getTopCategories answer for userId, for every
\* query and period
ResultsFor(userId) ==
    [findForUser |-> [q \in ListQueries |-> listTransactions(userId, q)],
     getSummary |-> [period \in Periods |-> getSummary(userId, period)],
     getTopCategories |-> [period \in CategoryPeriods |->
                              getTopCategories(userId, period)]]

\* the three reads of one user are served: GET /user/:userId for every query,
\* /user/:userId/summary and /user/:userId/categories for every period
Observe ==
    /\ txPc = "listening"
    /\ \E userId \in TxUsers :
         observed' = Some([userId |-> userId, results |-> ResultsFor(userId),
                           mockTransactions |-> mockTransactions,
                           liveTransactions |-> liveTransactions])
    /\ UNCHANGED <<txVars, usVars, pfVars>>

\* create, read by id, update and delete
TxCrudNext ==
    \/ TxStartServer
    \/ Disconnected
    \/ Reconnected
    \/ CreateTransaction
    \/ GetTransaction
    \/ UpdateTransaction
    \/ DeleteTransaction

\* create, delete and the queries over the collection
TxQueryNext ==
    \/ TxStartServer
    \/ Disconnected
    \/ Reconnected
    \/ Tick
    \/ CreateTransaction
    \/ DeleteTransaction
    \/ ListTransactions
    \/ Summary
    \/ TopCategories

\* =================================================================
\* User service
\* =================================================================

\* a query string, as the set of the substrings the mock pool looks for in it
Patterns == {"SELECT", "users", "email", "INSERT INTO users",
             "INSERT INTO user_profiles", "user_profiles"}
includes(queryString, str) == str \in queryString

\* 'SELECT id FROM users WHERE email = @email'
QSelectByEmail == {"SELECT", "users", "email"}
\* 'INSERT INTO users (email, password, name, age) OUTPUT inserted.id, ... VALUES (...)'
QInsertUser == {"INSERT INTO users", "users", "email"}
\* 'INSERT INTO user_profiles (user_id, monthly_income, spending_limit) VALUES (@user_id, 0, 0)'
QInsertProfile == {"INSERT INTO user_profiles", "user_profiles"}
\* 'SELECT u.id, u.email, u.name, ... FROM users u LEFT JOIN user_profiles p ... WHERE u.id = @id ...'
QSelectProfile == {"SELECT", "users", "email", "user_profiles"}
\* 'UPDATE users SET name = COALESCE(@name, name), ... WHERE id = @id'
QUpdateUser == {"users"}
\* 'UPDATE user_profiles SET monthly_income = COALESCE(...), ... WHERE user_id = @user_id'
QUpdateProfile == {"user_profiles"}
\* 'SELECT u.name, u.created_at, p.monthly_income, p.spending_limit, DATEDIFF(...) ... FROM users u
\*  LEFT JOIN user_profiles p ... WHERE u.id = @id ...'
QSelectStats == {"SELECT", "users", "user_profiles"}

\* this.inputs of a request before any .input(name, type, value)
NoInputs ==
    [email |-> None, password |-> None, name |-> None, age |-> None, user_id |-> None,
     id |-> None, monthly_income |-> None, financial_goals |-> None,
     spending_limit |-> None]

\* x || 0 for a number or undefined
OrZero(x) == IF x = None \/ x = Some(0) THEN 0 ELSE x[1]

\* createMockPool().request().query(queryString): the record set, and the mock
\* database after it
mockQuery(queryString, inputs) ==
    LET same == [users |-> mockUsers, profiles |-> mockProfiles, nextId |-> userNextId]
    IN IF includes(queryString, "SELECT") /\ includes(queryString, "users")
          /\ includes(queryString, "email")
       THEN LET found == SelectSeq(mockUsers, LAMBDA u : u.email = inputs.email)
            IN [recordset |-> IF found = <<>> THEN <<>> ELSE <<found[1]>>] @@ same
       ELSE IF includes(queryString, "INSERT INTO users")
       THEN LET user == [id |-> userNextId + 1, email |-> inputs.email,
                         password |-> inputs.password, name |-> inputs.name,
                         age |-> inputs.age, created_at |-> now, is_active |-> TRUE]
            IN [recordset |-> <<user>>, users |-> Append(mockUsers, user),
                profiles |-> mockProfiles, nextId |-> userNextId + 1]
       ELSE IF includes(queryString, "INSERT INTO user_profiles")
       THEN LET profile == [id |-> userNextId + 1, user_id |-> inputs.user_id,
                            monthly_income |-> OrZero(inputs.monthly_income),
                            spending_limit |-> OrZero(inputs.spending_limit)]
            IN [recordset |-> <<profile>>, users |-> mockUsers,
                profiles |-> Append(mockProfiles, profile), nextId |-> userNextId + 1]
       ELSE IF includes(queryString, "SELECT") /\ includes(queryString, "user_profiles")
       THEN LET user == SelectSeq(mockUsers, LAMBDA u : Some(u.id) = inputs.id)
                profile == SelectSeq(mockProfiles, LAMBDA p : p.user_id = inputs.id)
            IN IF user # <<>>
               THEN [recordset |->
                       <<[id |-> user[1].id, email |-> user[1].email,
                          password |-> user[1].password, name |-> user[1].name,
                          age |-> user[1].age, created_at |-> user[1].created_at,
                          is_active |-> user[1].is_active,
                          monthly_income |->
                              Some(IF profile = <<>> THEN 0 ELSE profile[1].monthly_income),
                          financial_goals |-> None,
                          spending_limit |->
                              Some(IF profile = <<>> THEN 0 ELSE profile[1].spending_limit),
                          days_since_registration |-> None]>>] @@ same
               ELSE [recordset |-> <<>>] @@ same
       ELSE [recordset |-> <<>>] @@ same

\* the comparison of the live server's collation: letter case is ignored
lower(email) == IF email = Some("A@x.com") THEN Some("a@x.com") ELSE email

\* SET column = @value: the parameter overwrites the column even when it is NULL
CoalesceOverwrite(value, column) == value

\* COALESCE(@value, column)
Coalesce(value, column) == IF value = None THEN column ELSE value

\* pool.request().query(queryString) of the live SQL Server on the tables of
\* createTables; threw stands for a rejected query (UNIQUE email)
liveQuery(queryString, inputs) ==
    LET same == [users |-> liveUsers, profiles |-> liveProfiles, nextId |-> userNextId,
                 threw |-> FALSE]
    IN IF queryString = QSelectByEmail
       THEN [recordset |-> SelectSeq(liveUsers,
                               LAMBDA u : lower(u.email) = lower(inputs.email))] @@ same
       ELSE IF queryString = QInsertUser
       THEN IF \E i \in 1..Len(liveUsers) : lower(liveUsers[i].email) = lower(inputs.email)
            THEN [recordset |-> <<>>, users |-> liveUsers, profiles |-> liveProfiles,
                  nextId |-> userNextId, threw |-> TRUE]
            ELSE LET user == [id |-> userNextId + 1, email |-> inputs.email,
                              password |-> inputs.password, name |-> inputs.name,
                              age |-> inputs.age, created_at |-> now, updated_at |-> now,
                              is_active |-> TRUE]
                 IN [recordset |-> <<user>>, users |-> Append(liveUsers, user),
                     profiles |-> liveProfiles, nextId |-> userNextId + 1,
                     threw |-> FALSE]
       ELSE IF queryString = QInsertProfile
       THEN LET profile == [id |-> userNextId + 1, user_id |-> inputs.user_id,
                            monthly_income |-> Some(0), financial_goals |-> None,
                            spending_limit |-> Some(0), created_at |-> now,
                            updated_at |-> now]
            IN [recordset |-> <<>>, users |-> liveUsers,
                profiles |-> Append(liveProfiles, profile), nextId |-> userNextId + 1,
                threw |-> FALSE]
       ELSE IF queryString = QSelectProfile \/ queryString = QSelectStats
       THEN LET user == SelectSeq(liveUsers, LAMBDA u : Some(u.id) = inputs.id /\ u.is_active)
                profile == SelectSeq(liveProfiles, LAMBDA p : p.user_id = inputs.id)
                row(u, income, goals, limit) ==
                    [id |-> u.id, email |-> u.email, password |-> u.password,
                     name |-> u.name, age |-> u.age, created_at |-> u.created_at,
                     is_active |-> u.is_active, monthly_income |-> income,
                     financial_goals |-> goals, spending_limit |-> limit,
                     days_since_registration |-> Some(now - u.created_at)]
            IN [recordset |->
                  IF user = <<>> THEN <<>>
                  ELSE IF profile = <<>> THEN <<row(user[1], None, None, None)>>
                  ELSE [k \in 1..Len(profile) |->
                          row(user[1], profile[k].monthly_income,
                              profile[k].financial_goals, profile[k].spending_limit)]]
               @@ same
       ELSE IF queryString = QUpdateUser
       THEN [recordset |-> <<>>,
             users |-> [i \in 1..Len(liveUsers) |->
                          IF Some(liveUsers[i].id) = inputs.id
                          THEN [liveUsers[i] EXCEPT !.name = Coalesce(inputs.name, @),
                                                    !.age = Coalesce(inputs.age, @),
                                                    !.updated_at = now]
                          ELSE liveUsers[i]],
             profiles |-> liveProfiles, nextId |-> userNextId, threw |-> FALSE]
       ELSE IF queryString = QUpdateProfile
       THEN [recordset |-> <<>>, users |-> liveUsers,
             profiles |-> [i \in 1..Len(liveProfiles) |->
                             IF liveProfiles[i].user_id = inputs.user_id
                             THEN [liveProfiles[i] EXCEPT
                                     !.monthly_income = Coalesce(inputs.monthly_income, @),
                                     !.financial_goals = Coalesce(inputs.financial_goals, @),
                                     !.spending_limit = Coalesce(inputs.spending_limit, @),
                                     !.updated_at = now]
                             ELSE liveProfiles[i]],
             nextId |-> userNextId, threw |-> FALSE]
       ELSE [recordset |-> <<>>] @@ same

\* getPool().request()...query(): the mock pool when useMockDatabase, else the live pool
query(queryString, inputs) ==
    IF useMockDatabase
    THEN LET r == mockQuery(queryString, inputs)
         IN [recordset |-> r.recordset, mockUsers |-> r.users, mockProfiles |-> r.profiles,
             liveUsers |-> liveUsers, liveProfiles |-> liveProfiles, nextId |-> r.nextId,
             threw |-> FALSE]
    ELSE LET r == liveQuery(queryString, inputs)
         IN [recordset |-> r.recordset, mockUsers |-> mockUsers, mockProfiles |-> mockProfiles,
             liveUsers |-> r.users, liveProfiles |-> r.profiles, nextId |-> r.nextId,
             threw |-> r.threw]

\* ---------------------------------------------------------------- handlers

RegisterBody(email, password, name, age) ==
    [email |-> email, password |-> password, name |-> name, age |-> age]

RegisterBodies ==
    { RegisterBody("a@x.com", "secret1", "Ann", None),
      RegisterBody("b@x.com", "secret2", "Bob", Some(30)),
      RegisterBody("A@x.com", "secret3", "Ann", None),
      RegisterBody("c@x.com", "secret4", "Cy", Some(12)) }

\* Joi registerSchema.validate: TRUE when there is no error
registerSchemaValid(b) ==
    /\ b.email # ""
    /\ Len(b.password) >= 6
    /\ Len(b.name) >= 2
    /\ (b.age = None \/ (b.age[1] >= 13 /\ b.age[1] <= 120))

\* bcrypt.hash(password, 10)
hash(password) == "$2a$10$" \o password

\* the register checks without the lookup of an existing user
registerCheckNoLookup(body) ==
    IF ~registerSchemaValid(body) THEN 400 ELSE 0

\* router.post('/register') up to the await of bcrypt.hash: 400, 409, or 0 to go on
registerCheck(body) ==
    IF ~registerSchemaValid(body) THEN 400
    ELSE LET existingUser == query(QSelectByEmail,
                                   [NoInputs EXCEPT !.email = Some(body.email)])
         IN IF Len(existingUser.recordset) > 0 THEN 409 ELSE 0

\* router.post('/register'): "Criar usuario"
registerInsertUser(body) ==
    query(QInsertUser, [NoInputs EXCEPT !.email = Some(body.email),
                                        !.password = Some(hash(body.password)),
                                        !.name = Some(body.name),
                                        !.age = body.age])

\* router.post('/register'): "Criar perfil financeiro padrao"
registerInsertProfile(userId) ==
    query(QInsertProfile, [NoInputs EXCEPT !.user_id = Some(userId)])

UserNotFound == [status |-> 404, body |-> [error |-> "User not found"]]

\* router.get('/profile/:id')
getProfile(id) ==
    LET result == query(QSelectProfile, [NoInputs EXCEPT !.id = Some(id)])
    IN IF Len(result.recordset) = 0 THEN UserNotFound
       ELSE LET user == result.recordset[1]
            IN [status |-> 200,
                body |-> [user |-> [id |-> user.id, email |-> user.email,
                                    name |-> user.name, age |-> user.age,
                                    created_at |-> user.created_at,
                                    profile |-> [monthly_income |-> user.monthly_income,
                                                 financial_goals |-> user.financial_goals,
                                                 spending_limit |-> user.spending_limit]]]]

\* x > 0 for a number, null or undefined
Positive(x) == x # None /\ x[1] > 0

\* the completion with "is set" (non-zero) tests in place of "> 0"
calculateProfileCompletionNonZero(stats) ==
    Min(30 + (IF stats.monthly_income \notin {None, Some(0)} THEN 35 ELSE 0)
           + (IF stats.spending_limit \notin {None, Some(0)} THEN 35 ELSE 0), 100)

calculateProfileCompletion(stats) ==
    Min(30 + (IF Positive(stats.monthly_income) THEN 35 ELSE 0)
           + (IF Positive(stats.spending_limit) THEN 35 ELSE 0), 100)

\* router.get('/stats/:id')
getStats(id) ==
    LET result == query(QSelectStats, [NoInputs EXCEPT !.id = Some(id)])
    IN IF Len(result.recordset) = 0 THEN UserNotFound
       ELSE LET stats == result.recordset[1]
            IN [status |-> 200,
                body |-> [stats |-> [name |-> stats.name,
                                     member_since |-> stats.created_at,
                                     days_active |-> stats.days_since_registration,
                                     monthly_income |-> stats.monthly_income,
                                     spending_limit |-> stats.spending_limit,
                                     profile_completion |->
                                         calculateProfileCompletion(stats)]]]

UpdateBody(name, age, income, goals, limit) ==
    [name |-> name, age |-> age, monthly_income |-> income, financial_goals |-> goals,
     spending_limit |-> limit]

ProfileUpdateBodies ==
    { UpdateBody(Some("Zed"), None, None, None, None),
      UpdateBody(None, Some(44), Some(3000), Some("save"), None) }

\* router.put('/profile/:id'): "Atualizar dados basicos do usuario"
updateUser(id, body) ==
    IF (body.name # None /\ body.name # Some("")) \/ body.age # None
    THEN query(QUpdateUser, [NoInputs EXCEPT !.id = Some(id), !.name = body.name,
                                             !.age = body.age])
    ELSE [recordset |-> <<>>, mockUsers |-> mockUsers, mockProfiles |-> mockProfiles,
          liveUsers |-> liveUsers, liveProfiles |-> liveProfiles, nextId |-> userNextId,
          threw |-> FALSE]

\* router.put('/profile/:id'): "Atualizar perfil financeiro"
updateProfile(id, body) ==
    IF body.monthly_income # None \/ body.financial_goals # None
       \/ body.spending_limit # None
    THEN query(QUpdateProfile, [NoInputs EXCEPT !.user_id = Some(id),
                                                !.monthly_income = body.monthly_income,
                                                !.financial_goals = body.financial_goals,
                                                !.spending_limit = body.spending_limit])
    ELSE [recordset |-> <<>>, mockUsers |-> mockUsers, mockProfiles |-> mockProfiles,
          liveUsers |-> liveUsers, liveProfiles |-> liveProfiles, nextId |-> userNextId,
          threw |-> FALSE]

\* createMockTables(): only logs
createMockTablesThrows == FALSE

\* how the attempt to reach the live SQL Server ends
Outcomes == {"connected", "connectFailed", "createTablesFailed"}

\* initDatabase without its inner catch: a failure reaches the outer catch
initDatabaseNoInnerCatch(outcome) ==
    [poolPromise |-> IF outcome = "connectFailed" THEN None ELSE Some("pool"),
     useMockDatabase |-> FALSE,
     threw |-> outcome # "connected"]

\* initDatabase: sql.connect and createTables succeed, or the inner catch
\* switches to the mock database; the outer catch rethrows
initDatabase(outcome) ==
    [poolPromise |-> IF outcome = "connectFailed" THEN None ELSE Some("pool"),
     useMockDatabase |-> outcome # "connected",
     threw |-> outcome # "connected" /\ createMockTablesThrows]

\* startServer of the user service: listen, or process.exit(1) on a throw
startServerUs(outcome) ==
    LET r == initDatabase(outcome)
    IN [poolPromise |-> r.poolPromise, useMockDatabase |-> r.useMockDatabase,
        pc |-> IF r.threw THEN "exited" ELSE "listening"]

\* ---------------------------------------------------------------- actions
Slots == 1..MaxUsers
UserIds == 1..MaxUsers + 1

NoRegister ==
    [pc |-> "idle", body |-> RegisterBody("", "", "", None), status |-> 0, userId |-> 0,
     serial |-> FALSE]
NoUpdate ==
    [pc |-> "idle", id |-> 0, body |-> UpdateBody(None, None, None, None, None),
     status |-> 0, existing |-> FALSE]

UsInit ==
    /\ usPc = "starting"
    /\ poolPromise = None
    /\ useMockDatabase = FALSE
    /\ mockUsers = <<>>
    /\ mockProfiles = <<>>
    /\ liveUsers = <<>>
    /\ liveProfiles = <<>>
    /\ userNextId = 0
    /\ reg = [r \in Slots |-> NoRegister]
    /\ upd = NoUpdate
    /\ ures = NoResponse

\* the amounts a row can carry: NULL (no profile row), or hundreds from -100 up
Money == {None} \cup {Some(100 * n) : n \in -1..MaxMoney}
Snapshots == [monthly_income : Money, spending_limit : Money]

PfInit ==
    /\ snapshot = [monthly_income |-> None, spending_limit |-> None]
    /\ completion = None

ObsInit == observed = None

Init == TxInit /\ UsInit /\ PfInit /\ ObsInit

\* any row, before calculateProfileCompletion is called with it
CompletionInit ==
    /\ TxInit /\ UsInit /\ ObsInit
    /\ snapshot \in Snapshots
    /\ completion = None

\* calculateProfileCompletion(stats) is called with the row
CalculateProfileCompletion ==
    /\ completion = None
    /\ completion' = Some(calculateProfileCompletion(snapshot))
    /\ UNCHANGED <<snapshot, txVars, usVars, obsVars>>

UsStartServer ==
    /\ usPc = "starting"
    /\ \E outcome \in Outcomes :
         LET r == startServerUs(outcome)
         IN /\ poolPromise' = r.poolPromise
            /\ useMockDatabase' = r.useMockDatabase
            /\ usPc' = r.pc
    /\ UNCHANGED <<mockUsers, mockProfiles, liveUsers, liveProfiles, userNextId, reg,
                   upd, ures>>
    /\ UNCHANGED <<txVars, pfVars, obsVars>>

\* a register request arrives and runs to the await of bcrypt.hash; serial
\* records whether no other register request was in flight when it arrived
RegisterCheck(r) ==
    /\ usPc = "listening"
    /\ reg[r].pc = "idle"
    /\ IF r = 1 THEN TRUE ELSE reg[r - 1].pc # "idle"
    /\ \E body \in RegisterBodies :
         LET status == registerCheck(body)
         IN /\ reg' = [reg EXCEPT ![r] = [pc |-> IF status = 0 THEN "insertUser" ELSE "done",
                                          body |-> body, status |-> status, userId |-> 0,
                                          serial |-> \A q \in Slots :
                                                        reg[q].pc \in {"idle", "done"}]]
            /\ ures' = IF status = 0 THEN ures ELSE [op |-> "register", status |-> status]
    /\ UNCHANGED <<usPc, poolPromise, useMockDatabase, mockUsers, mockProfiles, liveUsers, liveProfiles,
                   userNextId, upd>>
    /\ UNCHANGED <<txVars, pfVars, obsVars>>

\* the hash is there: the request inserts its user (a rejected INSERT answers 500)
RegisterInsertUser(r) ==
    /\ reg[r].pc = "insertUser"
    /\ LET result == registerInsertUser(reg[r].body)
       IN /\ mockUsers' = result.mockUsers
          /\ liveUsers' = result.liveUsers
          /\ userNextId' = result.nextId
          /\ reg' = [reg EXCEPT ![r] =
                       IF result.threw
                       THEN [@ EXCEPT !.pc = "done", !.status = 500]
                       ELSE [@ EXCEPT !.pc = "insertProfile",
                                      !.userId = result.recordset[1].id]]
          /\ ures' = IF result.threw THEN [op |-> "register", status |-> 500] ELSE ures
    /\ UNCHANGED <<usPc, poolPromise, useMockDatabase, mockProfiles, liveProfiles, upd>>
    /\ UNCHANGED <<txVars, pfVars, obsVars>>

\* the request inserts the default profile of its user and answers 201
RegisterInsertProfile(r) ==
    /\ reg[r].pc = "insertProfile"
    /\ LET result == registerInsertProfile(reg[r].userId)
       IN /\ mockProfiles' = result.mockProfiles
          /\ liveProfiles' = result.liveProfiles
          /\ userNextId' = result.nextId
    /\ reg' = [reg EXCEPT ![r] = [@ EXCEPT !.pc = "done", !.status = 201]]
    /\ ures' = [op |-> "register", status |-> 201]
    /\ UNCHANGED <<usPc, poolPromise, useMockDatabase, mockUsers, liveUsers, upd>>
    /\ UNCHANGED <<txVars, pfVars, obsVars>>

GetProfile ==
    /\ usPc = "listening"
    /\ \E id \in UserIds : ures' = [op |-> "getProfile", status |-> getProfile(id).status]
    /\ UNCHANGED <<usPc, poolPromise, useMockDatabase, mockUsers, mockProfiles, liveUsers, liveProfiles,
                   userNextId, reg, upd>>
    /\ UNCHANGED <<txVars, pfVars, obsVars>>

GetStats ==
    /\ usPc = "listening"
    /\ \E id \in UserIds : ures' = [op |-> "getStats", status |-> getStats(id).status]
    /\ UNCHANGED <<usPc, poolPromise, useMockDatabase, mockUsers, mockProfiles, liveUsers, liveProfiles,
                   userNextId, reg, upd>>
    /\ UNCHANGED <<txVars, pfVars, obsVars>>

\* id is the id of a user whose registration has been answered 201
Registered(id) ==
    \E r \in Slots : reg[r].pc = "done" /\ reg[r].status = 201 /\ reg[r].userId = id

\* a profile update arrives and runs its UPDATE users; existing records whether
\* the registration of the user had been answered when the request arrived
UpdateProfileUser ==
    /\ usPc = "listening"
    /\ upd.pc # "profile"
    /\ \E id \in UserIds, body \in ProfileUpdateBodies :
         LET result == updateUser(id, body)
         IN /\ mockUsers' = result.mockUsers
            /\ liveUsers' = result.liveUsers
            /\ upd' = [pc |-> "profile", id |-> id, body |-> body, status |-> 0,
                       existing |-> Registered(id)]
    /\ UNCHANGED <<usPc, poolPromise, useMockDatabase, mockProfiles, liveProfiles, userNextId, reg, ures>>
    /\ UNCHANGED <<txVars, pfVars, obsVars>>

\* the update runs its UPDATE user_profiles and answers 200
UpdateProfileProfile ==
    /\ upd.pc = "profile"
    /\ LET result == updateProfile(upd.id, upd.body)
       IN /\ mockProfiles' = result.mockProfiles
          /\ liveProfiles' = result.liveProfiles
    /\ upd' = [upd EXCEPT !.pc = "done", !.status = 200]
    /\ ures' = [op |-> "updateProfile", status |-> 200]
    /\ UNCHANGED <<usPc, poolPromise, useMockDatabase, mockUsers, liveUsers, userNextId, reg>>
    /\ UNCHANGED <<txVars, pfVars, obsVars>>

\* the startup of both services, and registration
RegisterNext ==
    \/ UsStartServer
    \/ TxStartServer
    \/ \E r \in Slots : RegisterCheck(r)
    \/ \E r \in Slots : RegisterInsertUser(r)
    \/ \E r \in Slots : RegisterInsertProfile(r)

\* a profile update that arrives while no registration is in flight
UpdateProfileUserQuiet ==
    /\ \A r \in Slots : reg[r].pc \in {"idle", "done"}
    /\ UpdateProfileUser

\* registration and the profile update
UpdateNext ==
    \/ UsStartServer
    \/ \E r \in Slots : upd.pc # "profile" /\ RegisterCheck(r)
    \/ \E r \in Slots : RegisterInsertUser(r)
    \/ \E r \in Slots : RegisterInsertProfile(r)
    \/ UpdateProfileUserQuiet
    \/ UpdateProfileProfile

\* registration, the reads and the profile update
UsNext ==
    \/ UsStartServer
    \/ \E r \in Slots : RegisterCheck(r)
    \/ \E r \in Slots : RegisterInsertUser(r)
    \/ \E r \in Slots : RegisterInsertProfile(r)
    \/ GetProfile
    \/ GetStats
    \/ UpdateProfileUser
    \/ UpdateProfileProfile

\* the writes of the transaction service after its reads
IsolationNext ==
    \/ TxStartServer
    \/ CreateTransaction
    \/ UpdateTransactionAnyUser
    \/ DeleteTransaction
    \/ Observe

\* the transaction service: its writes
SpecTx == Init /\ [][TxCrudNext]_vars

\* the transaction service: its queries
SpecTxQuery == Init /\ [][TxQueryNext]_vars

\* the startup of both services, and the registrations of the user service
SpecRegister == Init /\ [][RegisterNext]_vars

\* the user service
SpecUser == Init /\ [][UsNext]_vars
SpecUpdate == Init /\ [][UpdateNext]_vars
SpecCompletion == CompletionInit /\ [][CalculateProfileCompletion]_vars
SpecIsolation == Init /\ [][IsolationNext]_vars

\* =================================================================
\* Properties of the transaction service
\* =================================================================

\* the collection the requests of this state read and write
activeStore == IF TransactionIsMock THEN mockTransactions ELSE liveTransactions

RECURSIVE SetSum(_, _)
\* the sum of f over the finite set S
SetSum(f, S) ==
    IF S = {} THEN 0
    ELSE LET x == CHOOSE y \in S : TRUE IN f[x] + SetSum(f, S \ {x})

SignMatchesType(t) ==
    /\ (t.type = "income" => t.amount > 0)
    /\ (t.type = "expense" => t.amount < 0)

\* C1: every stored transaction, in the emulator and in the live collection, has
\* an amount whose sign matches its type (income positive, expense negative),
\* whatever sign the create or update request carried.
C1_AmountSignMatchesType ==
    /\ \A i \in 1..Len(mockTransactions) : SignMatchesType(mockTransactions[i])
    /\ \A i \in 1..Len(liveTransactions) : SignMatchesType(liveTransactions[i])

\* C1 witness: an update has succeeded and the store holds an expense sent as +50
\* and an income sent as -100 (no request body carries -50 or +100)
C1_Witness ==
    /\ res.op = "update" /\ res.status = 200
    /\ \E i \in 1..Len(activeStore) :
         activeStore[i].type = "expense" /\ activeStore[i].amount = -50
    /\ \E i \in 1..Len(activeStore) :
         activeStore[i].type = "income" /\ activeStore[i].amount = 100

\* C4: once the service listens, the mode its store operations observe is the
\* mode selected at initialization.
C4_ModeNeverReevaluated ==
    txPc = "listening" =>
        /\ (shouldUseMockRoutes <=> dbUseMockDatabase)
        /\ (shouldUseMockModel <=> dbUseMockDatabase)

\* C6: in fallback mode the summary and the top categories over the stored
\* dataset are what the live store's pipelines give on the same dataset.
C6_EmulatorEquivalence ==
    (txPc = "listening" /\ TransactionIsMock) =>
        /\ \A userId \in TxUsers, period \in CategoryPeriods :
             getTopCategories(userId, period).body.categories =
                 categoriesPipeline(mockTransactions, userId,
                                    now - parseIntPeriod(period), now)
        /\ \A userId \in TxUsers, period \in Periods :
             LET live == groupByType(SelectSeq(mockTransactions,
                             LAMBDA t : inWindow(t, userId, now - periodDays(period), now)))
             IN getFinancialSummary(userId, now - periodDays(period), now) = live

NonIncreasingDates(s) == \A i \in 1..Len(s) - 1 : s[i].date >= s[i + 1].date

\* C7: for every filter and page size, the pages 1, 2, ... of the list request
\* together hold each transaction of the filtered set exactly once, in
\* date-descending order.
C7_PaginationExhaustive ==
    txPc = "listening" =>
        \A userId \in TxUsers, q \in ListQueries :
            LET filter == [userId |-> userId, category |-> q.category, type |-> q.type,
                           startDate |-> q.startDate, endDate |-> q.endDate]
                want == SelectSeq(activeStore, LAMBDA t : matches(t, filter))
                last == IF want = <<>> THEN 1 ELSE Ceil(Len(want), q.limit)
                page(p) == listTransactions(userId, [q EXCEPT !.page = p])
            IN /\ \A p \in 1..last : page(p).status = 200
               /\ LET all == ConcatAll([p \in 1..last |-> page(p).body.transactions])
                  IN /\ Len(all) = Len(want)
                     /\ Range(all) = Range(want)
                     /\ NonIncreasingDates(all)

\* the days of the window of a period: 7d, 30d, 90d, 1y, and 30d for any other
WindowDays(period) ==
    IF period = "7d" THEN 7
    ELSE IF period = "90d" THEN 90
    ELSE IF period = "1y" THEN 365
    ELSE 30

\* C8: the summary of a user and period is income = the sum of the user's income
\* amounts dated in the window, expenses = the absolute value of the sum of the
\* user's expense amounts in the window, balance = income - expenses, and the
\* count of both; a type without rows counts 0 and the request never fails.
C8_SummaryCorrect ==
    txPc = "listening" =>
        \A userId \in TxUsers, period \in Periods :
            LET rows(type) == {i \in 1..Len(activeStore) :
                                  /\ activeStore[i].userId = userId
                                  /\ activeStore[i].type = type
                                  /\ activeStore[i].date >= now - WindowDays(period)
                                  /\ activeStore[i].date <= now}
                amount == [i \in 1..Len(activeStore) |-> activeStore[i].amount]
                income == SetSum(amount, rows("income"))
                expenses == Abs(SetSum(amount, rows("expense")))
                r == getSummary(userId, period)
            IN /\ r.status = 200
               /\ r.body.summary.income = income
               /\ r.body.summary.expenses = expenses
               /\ r.body.summary.balance = income - expenses
               /\ r.body.summary.total_transactions =
                      Cardinality(rows("income")) + Cardinality(rows("expense"))

\* C8 witness: a summary has been answered while the store holds an income of u1
\* inside the 7-day window and an expense of u1 outside it
C8_Witness ==
    /\ res.op = "summary" /\ res.status = 200
    /\ \E i, k \in 1..Len(activeStore) :
         /\ activeStore[i].userId = "u1" /\ activeStore[i].type = "income"
         /\ activeStore[i].date >= now - 7 /\ activeStore[i].date <= now
         /\ activeStore[k].userId = "u1" /\ activeStore[k].type = "expense"
         /\ activeStore[k].date < now - 7

\* =================================================================
\* Properties of the user service
\* =================================================================

\* the tables the requests of this state read and write
activeUsers == IF useMockDatabase THEN mockUsers ELSE liveUsers
activeProfiles == IF useMockDatabase THEN mockProfiles ELSE liveProfiles

\* C2: a register request that arrives after a registration with the same email
\* has answered 201 is answered 409 at once and changes no table, in live mode
\* and in fallback mode.
C2_SecondRegistrationConflicts ==
    [][\A r \in Slots :
         (/\ reg[r].pc = "idle" /\ reg'[r].pc # "idle"
          /\ \E q \in Slots : /\ reg[q].pc = "done" /\ reg[q].status = 201
                              /\ reg[q].body.email = reg'[r].body.email)
         => /\ reg'[r].pc = "done" /\ reg'[r].status = 409
            /\ UNCHANGED <<mockUsers, mockProfiles, liveUsers, liveProfiles>>]_vars

\* C2 witness: in fallback mode a registration answered 201, a later one with the
\* same email answered 409, and one user row and one profile row are stored
C2_Witness ==
    /\ useMockDatabase
    /\ \E q, r \in Slots :
         /\ q < r
         /\ reg[q].pc = "done" /\ reg[q].status = 201
         /\ reg[r].pc = "done" /\ reg[r].status = 409
         /\ reg[q].body.email = reg[r].body.email
    /\ Len(mockUsers) = 1 /\ Len(mockProfiles) = 1

\* C3: the user store never holds two users with the same email, and of the
\* registrations with one email at most one is answered 201.
C3_EmailUnique ==
    /\ \A i, j \in 1..Len(mockUsers) :
         mockUsers[i].email = mockUsers[j].email => i = j
    /\ \A i, j \in 1..Len(liveUsers) :
         liveUsers[i].email = liveUsers[j].email => i = j
    /\ \A q, r \in Slots :
         (/\ reg[q].status = 201 /\ reg[r].status = 201
          /\ reg[q].body.email = reg[r].body.email) => q = r

\* C5: a failed connection to the live store ends initialization in fallback
\* mode with the service listening: no service exits, and a service that listens
\* without a live connection has its mock database switched on.
C5_FallbackOnConnectionFailure ==
    /\ usPc # "exited"
    /\ txPc # "exited"
    /\ (usPc = "listening" /\ poolPromise = None) => useMockDatabase
    /\ (txPc = "listening" /\ readyState = 0) => dbUseMockDatabase

\* C5 witness: both connections failed, both services listen in fallback mode and
\* the user service has answered a registration
C5_Witness ==
    /\ usPc = "listening" /\ poolPromise = None /\ useMockDatabase
    /\ txPc = "listening" /\ readyState = 0 /\ dbUseMockDatabase
    /\ ures.op = "register" /\ ures.status = 201

\* C9: in fallback mode the profile read of the id of a stored user answers 200
\* with that user's fields and its profile's (0, 0 and null without a profile
\* row), and the read of any other id answers 404.
C9_ProfileReadInFallback ==
    (usPc = "listening" /\ useMockDatabase) =>
        \A id \in UserIds :
            LET user == SelectSeq(mockUsers, LAMBDA u : u.id = id)
                profile == SelectSeq(mockProfiles, LAMBDA p : p.user_id = Some(id))
                r == getProfile(id)
            IN IF user = <<>> THEN r.status = 404
               ELSE /\ r.status = 200
                    /\ r.body.user.id = id
                    /\ r.body.user.email = user[1].email
                    /\ r.body.user.name = user[1].name
                    /\ r.body.user.age = user[1].age
                    /\ r.body.user.profile =
                         IF profile = <<>>
                         THEN [monthly_income |-> Some(0), financial_goals |-> None,
                               spending_limit |-> Some(0)]
                         ELSE [monthly_income |-> Some(profile[1].monthly_income),
                               financial_goals |-> None,
                               spending_limit |-> Some(profile[1].spending_limit)]

\* C10: once a profile update of a user registered before it has answered 200,
\* the reads of that user return the value of every field the request supplied,
\* in fallback mode as in live mode.
C10_UpdateThenRead ==
    (upd.pc = "done" /\ upd.status = 200 /\ upd.existing) =>
        LET profile == getProfile(upd.id)
            stats == getStats(upd.id)
        IN /\ profile.status = 200 /\ stats.status = 200
           /\ upd.body.name # None =>
                (profile.body.user.name = upd.body.name
                 /\ stats.body.stats.name = upd.body.name)
           /\ upd.body.age # None => profile.body.user.age = upd.body.age
           /\ upd.body.monthly_income # None =>
                (profile.body.user.profile.monthly_income = upd.body.monthly_income
                 /\ stats.body.stats.monthly_income = upd.body.monthly_income)
           /\ upd.body.financial_goals # None =>
                profile.body.user.profile.financial_goals = upd.body.financial_goals
           /\ upd.body.spending_limit # None =>
                (profile.body.user.profile.spending_limit = upd.body.spending_limit
                 /\ stats.body.stats.spending_limit = upd.body.spending_limit)

\* the fields of a users row that no update writes
userKept(u) == [id |-> u.id, email |-> u.email, password |-> u.password,
                created_at |-> u.created_at, is_active |-> u.is_active]

\* users table after is users table before, but for the fields the body supplies
\* (and updated_at) of the row of user id
UsersFrame(before, after, id, body) ==
    /\ Len(after) = Len(before)
    /\ \A i \in 1..Len(before) :
         IF before[i].id # id THEN after[i] = before[i]
         ELSE /\ userKept(after[i]) = userKept(before[i])
              /\ body.name = None => after[i].name = before[i].name
              /\ body.age = None => after[i].age = before[i].age

\* the same for the user_profiles table and the profile rows of user id
ProfilesFrame(before, after, id, body) ==
    /\ Len(after) = Len(before)
    /\ \A i \in 1..Len(before) :
         IF before[i].user_id # Some(id) THEN after[i] = before[i]
         ELSE /\ after[i].id = before[i].id /\ after[i].user_id = before[i].user_id
              /\ body.monthly_income = None =>
                    after[i].monthly_income = before[i].monthly_income
              /\ body.spending_limit = None =>
                    after[i].spending_limit = before[i].spending_limit
              /\ (body.financial_goals = None /\ ~useMockDatabase) =>
                    after[i].financial_goals = before[i].financial_goals

\* C11: each step of a profile update leaves the fields its request does not
\* supply as they were, in the row of its user and in its profile, and leaves
\* the rows of every other user and profile unchanged.
C11_UpdateFrame ==
    [][(upd'.pc # "idle" /\ upd' # upd) =>
         /\ UsersFrame(mockUsers, mockUsers', upd'.id, upd'.body)
         /\ UsersFrame(liveUsers, liveUsers', upd'.id, upd'.body)
         /\ ProfilesFrame(mockProfiles, mockProfiles', upd'.id, upd'.body)
         /\ ProfilesFrame(liveProfiles, liveProfiles', upd'.id, upd'.body)]_vars

\* C11 witness: in live mode an update that supplies age and monthly income but
\* no name has answered 200, and the row of its user carries the new age and
\* the name it had, next to the row of another user
C11_Witness ==
    /\ ~useMockDatabase
    /\ upd.pc = "done" /\ upd.status = 200 /\ upd.existing
    /\ upd.body.name = None /\ upd.body.age # None
    /\ \E i, j \in 1..Len(liveUsers) :
         /\ liveUsers[i].id = upd.id /\ liveUsers[i].age = upd.body.age
         /\ liveUsers[i].name # None
         /\ liveUsers[j].id # upd.id
    /\ \E k \in 1..Len(liveProfiles) :
         /\ liveProfiles[k].user_id = Some(upd.id)
         /\ liveProfiles[k].monthly_income = upd.body.monthly_income

\* C12: every stored user has a profile row, and every profile row belongs to a
\* stored user.
C12_UserAndProfileTogether ==
    /\ \A i \in 1..Len(activeUsers) :
         \E k \in 1..Len(activeProfiles) :
            activeProfiles[k].user_id = Some(activeUsers[i].id)
    /\ \A k \in 1..Len(activeProfiles) :
         \E i \in 1..Len(activeUsers) :
            activeProfiles[k].user_id = Some(activeUsers[i].id)

\* C13: every stored transaction that is recurring has a recurringPeriod of the
\* fixed set, in the emulated collection and in the live one.
C13_RecurringHasPeriod ==
    \A t \in Range(mockTransactions) \cup Range(liveTransactions) :
        t.isRecurring =>
            (t.recurringPeriod # None /\ t.recurringPeriod[1] \in RecurringPeriods)

\* C14: of the registrations handled one after the other, no two whose emails
\* are equal when letter case is ignored both succeed, so no store comes to hold
\* two such users.
C14_EmailUniqueIgnoringCase ==
    \A q, r \in Slots :
        (/\ q < r /\ reg[r].serial
         /\ reg[q].pc = "done" /\ reg[q].status = 201
         /\ reg[r].pc = "done" /\ reg[r].status = 201)
        => lower(Some(reg[q].body.email)) # lower(Some(reg[r].body.email))

\* the filter of a list request, predicate by predicate
Satisfies(t, userId, q) ==
    /\ t.userId = userId
    /\ q.category # None => t.category = q.category[1]
    /\ q.type # None => t.type = q.type[1]
    /\ q.startDate # None => t.date >= q.startDate[1]
    /\ q.endDate # None => t.date <= q.endDate[1]

\* C15: every list request answers with a total that is the number of stored
\* transactions satisfying all the predicates of its filter, whatever its page
\* and page size.
C15_TotalIsFilteredCount ==
    txPc = "listening" =>
        \A userId \in TxUsers, q \in ListQueries :
            LET r == listTransactions(userId, q)
            IN /\ r.status = 200
               /\ r.body.pagination.total =
                    Cardinality({i \in 1..Len(activeStore) :
                                   Satisfies(activeStore[i], userId, q)})

\* the periods of the form <days>d
DayPeriods == {"7d", "30d", "90d"}

\* C16: the top categories of a user and a period of days are one entry per
\* category of the user's transactions in the window, with the count and the
\* sum of the absolute amounts of both types, ordered by count descending, at
\* most 10.
C16_TopCategories ==
    txPc = "listening" =>
        \A userId \in TxUsers, period \in DayPeriods :
            LET rows(c) == {i \in 1..Len(activeStore) :
                               /\ activeStore[i].userId = userId
                               /\ activeStore[i].category = c
                               /\ activeStore[i].date >= now - WindowDays(period)
                               /\ activeStore[i].date <= now}
                absAmount == [i \in 1..Len(activeStore) |-> Abs(activeStore[i].amount)]
                present == {c \in Categories : rows(c) # {}}
                r == getTopCategories(userId, period)
                cs == r.body.categories
            IN /\ r.status = 200
               /\ Len(cs) = Min(TopLimit, Cardinality(present))
               /\ \A k \in 1..Len(cs) :
                    /\ cs[k]._id \in present
                    /\ cs[k].count = Cardinality(rows(cs[k]._id))
                    /\ cs[k].total_amount = SetSum(absAmount, rows(cs[k]._id))
               /\ \A k, l \in 1..Len(cs) :
                    /\ (k < l => cs[k].count >= cs[l].count)
                    /\ (cs[k]._id = cs[l]._id => k = l)

\* C17: the completion of a row is 30, plus 35 when its monthly income is above
\* 0, plus 35 when its spending limit is above 0: one of 30, 65 and 100, and 65
\* for monthly income 0 and spending limit 500.
C17_ProfileCompletion ==
    completion # None =>
        LET income == snapshot.monthly_income
            limit == snapshot.spending_limit
        IN /\ completion[1] = 30 + (IF income # None /\ income[1] > 0 THEN 35 ELSE 0)
                                  + (IF limit # None /\ limit[1] > 0 THEN 35 ELSE 0)
           /\ completion[1] \in {30, 65, 100}
           /\ completion[1] >= 0 /\ completion[1] <= 100
           /\ (income = Some(0) /\ limit = Some(500)) => completion = Some(65)

\* C17 witness: the function has returned 65 for monthly income 0 and spending
\* limit 500
C17_Witness ==
    /\ snapshot = [monthly_income |-> Some(0), spending_limit |-> Some(500)]
    /\ completion = Some(65)

\* the document a full replace by the validated and normalized body v leaves
Replaced(doc, v, t) ==
    /\ doc.userId = v.userId /\ doc.amount = v.amount
    /\ doc.description = v.description /\ doc.category = v.category
    /\ doc.type = v.type
    /\ doc.date = (IF v.date = None THEN t ELSE v.date[1])
    /\ doc.tags = (IF v.tags = None THEN <<>> ELSE doc.tags)
    /\ doc.isRecurring = (IF v.isRecurring = None THEN FALSE ELSE v.isRecurring[1])
    /\ doc.recurringPeriod = v.recurringPeriod

\* C18: an update answered 200 replaces the document of its id by the validated
\* and normalized request, the optional fields the request omits falling back to
\* their defaults, and touches no other document.
C18_UpdateReplaces ==
    [][(UpdateTransaction /\ res'.status = 200) =>
         \E id \in TxIds, body \in TxUpdateBodies :
            LET i == IndexOfId(activeStore, id)
            IN /\ i # 0 /\ transactionSchemaValid(body)
               /\ Len(activeStore') = Len(activeStore)
               /\ \A j \in 1..Len(activeStore) :
                    IF j = i THEN /\ activeStore'[j]._id = id
                                  /\ Replaced(activeStore'[j], adjusted(body), now)
                    ELSE activeStore'[j] = activeStore[j]]_vars

\* C19: in fallback mode every transaction of the emulated collection is
\* returned by the read of its id, is among the transactions of the list of its
\* owner, and is counted by the summary of its owner over a year.
C19_CreatedIsVisible ==
    (txPc = "listening" /\ dbUseMockDatabase /\ TransactionIsMock) =>
        \A i \in 1..Len(mockTransactions) :
            LET t == mockTransactions[i]
                got == getTransaction(t._id)
                list == listTransactions(t.userId, Query(1, 20))
                summary == getSummary(t.userId, "1y")
                owned == {j \in 1..Len(mockTransactions) :
                             /\ mockTransactions[j].userId = t.userId
                             /\ mockTransactions[j].date >= now - WindowDays("1y")
                             /\ mockTransactions[j].date <= now}
            IN /\ got.status = 200 /\ got.body.transaction = t
               /\ summary.status = 200
               /\ summary.body.summary.total_transactions = Cardinality(owned)
               /\ list.status = 200
               /\ \E k \in 1..Len(list.body.transactions) :
                     list.body.transactions[k] = t

\* C20: the read, the update and the delete of an id that is not in the store
\* answer NotFound and leave the store as it is, and the delete of an id that is
\* in the store removes the transaction of that id and no other.
C20_NotFoundAndDelete ==
    txPc = "listening" =>
        \A id \in RequestIds :
            LET i == IndexOfId(activeStore, id)
                deleted == deleteTransaction(id)
                after == IF TransactionIsMock THEN deleted.mock ELSE deleted.live
            IN IF i = 0
               THEN /\ getTransaction(id) = NotFound
                    /\ deleted.res = NotFound
                    /\ deleted.mock = mockTransactions /\ deleted.live = liveTransactions
                    /\ \A body \in ValidBodies :
                         LET put == putTransaction(id, body)
                         IN /\ put.res = NotFound
                            /\ put.mock = mockTransactions /\ put.live = liveTransactions
               ELSE /\ deleted.res.status = 200
                    /\ Len(after) = Len(activeStore) - 1
                    /\ \A j \in 1..Len(after) : after[j]._id # id
                    /\ \A j \in 1..Len(activeStore) :
                         activeStore[j]._id # id =>
                            \E k \in 1..Len(after) : after[k] = activeStore[j]

\* the read r shows every user field (name, age) that body supplied
ShowsUserFields(r, body) ==
    /\ body.name # None => r.body.user.name = body.name
    /\ body.age # None => r.body.user.age = body.age

\* the read r shows every profile field (monthly income, goals, spending limit)
\* that body supplied
ShowsProfileFields(r, body) ==
    /\ body.monthly_income # None =>
         r.body.user.profile.monthly_income = body.monthly_income
    /\ body.financial_goals # None =>
         r.body.user.profile.financial_goals = body.financial_goals
    /\ body.spending_limit # None =>
         r.body.user.profile.spending_limit = body.spending_limit

\* body supplies user fields and profile fields
SuppliesBoth(body) ==
    /\ body.name # None \/ body.age # None
    /\ body.monthly_income # None \/ body.financial_goals # None
       \/ body.spending_limit # None

\* C21: a profile update of a registered user that supplies both user fields and
\* profile fields is never observed half-applied: at no moment does a read of
\* that user answer with the supplied user fields and without the supplied
\* profile fields.
C21_UpdateNeverHalfApplied ==
    (usPc = "listening" /\ upd.pc # "idle" /\ upd.existing /\ SuppliesBoth(upd.body)) =>
        LET r == getProfile(upd.id)
        IN r.status = 200 =>
             ~(ShowsUserFields(r, upd.body) /\ ~ShowsProfileFields(r, upd.body))

\* from before to after no transaction owned by userId was updated or deleted,
\* and none was created for userId
OnlyOthersWritten(before, after, userId) ==
    /\ \A i \in 1..Len(before) :
         before[i].userId = userId => \E j \in 1..Len(after) : after[j] = before[i]
    /\ \A j \in 1..Len(after) :
         (\A i \in 1..Len(before) : before[i]._id # after[j]._id) =>
             after[j].userId # userId

\* C22: once the reads have answered for a user, as long as no transaction owned
\* by that user is updated or deleted and none is created for that user, the
\* creates, updates and deletes of the transactions owned by other users leave
\* what findForUser, getSummary and getTopCategories answer for that user unchanged.
C22_OtherUsersWritesInvisible ==
    observed # None =>
        LET o == observed[1]
        IN ( /\ OnlyOthersWritten(o.mockTransactions, mockTransactions, o.userId)
             /\ OnlyOthersWritten(o.liveTransactions, liveTransactions, o.userId) )
           => ResultsFor(o.userId) = o.results

====
